---- MODULE Spec2Model ----
(***************************************************************************)
(* log-retina: the log parser (parseLogFile and its three line parsers,    *)
(* the level classifier, the timestamp extractor), the filter engine       *)
(* (filterLogs), the Timeline bucketizer and the LogViewer component that  *)
(* drives them.                                                            *)
(*                                                                         *)
(* Text is modelled as TLA+ strings handled character by character         *)
(* (SubSeq, Len and \o on strings), so that regular expressions, trimming, *)
(* case folding, JSON decoding/encoding and date parsing are computed      *)
(* rather than assumed.                                                    *)
(*                                                                         *)
(* Instants are integers: milliseconds since 2024-01-01T00:00:00.000Z,     *)
(* the model epoch.  Unix time is the model epoch plus 17040672 * 10^5 ms. *)
(***************************************************************************)
EXTENDS Integers, Sequences, FiniteSets, TLC

VARIABLES
    idCounter,       \* logParser: let idCounter
    now,             \* the wall clock read by Date.now() / new Date()
    parsedLog,       \* LogViewer: useState<ParsedLog | null>
    selectedEntry,   \* LogViewer: useState<LogEntry | null>
    searchQuery,     \* LogViewer: useState('')
    selectedLevels,  \* LogViewer: useState<LogLevel[]>([])
    readers,         \* FileUpload: FileReader reads still in flight
    lastPicked,      \* history: the file picked last, and the reads then pending
    lastLoad,        \* history: did the load that ran last replace an edited view
    issued,          \* history: every id generateId has returned so far
    call,            \* arguments of the pure function under examination
    ret              \* its result, None until it has returned

vars == <<idCounter, now, parsedLog, selectedEntry, searchQuery,
          selectedLevels, readers, lastPicked, lastLoad, issued, call, ret>>

None == [t |-> "none"]

---------------------------------------------------------------------------
(* JavaScript string primitives                                            *)

Ch(s, i) == SubSeq(s, i, i)

Max(S) == CHOOSE x \in S : \A y \in S : y <= x
Min(S) == CHOOSE x \in S : \A y \in S : x <= y

SeqRange(seq) == {seq[n] : n \in 1..Len(seq)}

Digits == "0123456789"
UpperAZ == "ABCDEFGHIJKLMNOPQRSTUVWXYZ"
LowerAZ == "abcdefghijklmnopqrstuvwxyz"

DigitSet == {Ch(Digits, i) : i \in 1..10}
UpperSet == {Ch(UpperAZ, i) : i \in 1..26}
LowerSet == {Ch(LowerAZ, i) : i \in 1..26}

IsDigit(c) == c \in DigitSet
\* \w
WordSet == DigitSet \cup UpperSet \cup LowerSet \cup {"_"}
IsWord(c) == c \in WordSet
\* \s and the characters String.prototype.trim removes
WhiteSpace == {" ", "\t", "\r", "\n", "\f"}
IsSpace(c) == c \in WhiteSpace
\* what '.' does not match
LineTerminators == {"\n", "\r"}

DigitValue == [c \in DigitSet |-> CHOOSE d \in 0..9 : Ch(Digits, d + 1) = c]
DigitVal(c) == DigitValue[c]

ToLowerMap == [c \in UpperSet |->
                 Ch(LowerAZ, CHOOSE i \in 1..26 : Ch(UpperAZ, i) = c)]
ToUpperMap == [c \in LowerSet |->
                 Ch(UpperAZ, CHOOSE i \in 1..26 : Ch(LowerAZ, i) = c)]

LowerCh(c) == IF c \in UpperSet THEN ToLowerMap[c] ELSE c

UpperCh(c) == IF c \in LowerSet THEN ToUpperMap[c] ELSE c

RECURSIVE toLowerCase(_)
toLowerCase(s) ==
    IF s = "" THEN "" ELSE LowerCh(Head(s)) \o toLowerCase(Tail(s))

RECURSIVE toUpperCase(_)
toUpperCase(s) ==
    IF s = "" THEN "" ELSE UpperCh(Head(s)) \o toUpperCase(Tail(s))

StartsAt(s, i, sub) ==
    /\ i >= 1
    /\ i + Len(sub) - 1 <= Len(s)
    /\ SubSeq(s, i, i + Len(sub) - 1) = sub

startsWith(s, sub) == StartsAt(s, 1, sub)

includes(s, sub) == \E i \in 1..(Len(s) - Len(sub) + 1) : StartsAt(s, i, sub)

\* String.prototype.indexOf, 0 when absent (positions are 1-based here)
indexOf(s, sub) ==
    IF includes(s, sub)
    THEN Min({i \in 1..(Len(s) - Len(sub) + 1) : StartsAt(s, i, sub)})
    ELSE 0

\* String.prototype.replace(pattern: string, replacement): first occurrence
replaceFirst(s, sub, by) ==
    LET i == indexOf(s, sub)
    IN  IF i = 0 THEN s
        ELSE SubSeq(s, 1, i - 1) \o by \o SubSeq(s, i + Len(sub), Len(s))

\* number of consecutive characters of s, from position i on, inside Cls
RECURSIVE RunLen(_, _, _)
RunLen(s, i, Cls) ==
    IF i <= Len(s) /\ Ch(s, i) \in Cls THEN 1 + RunLen(s, i + 1, Cls) ELSE 0

\* number of consecutive characters of s, from position i on, outside Cls
RECURSIVE RunLenNot(_, _, _)
RunLenNot(s, i, Cls) ==
    IF i <= Len(s) /\ Ch(s, i) \notin Cls
    THEN 1 + RunLenNot(s, i + 1, Cls) ELSE 0

trimStart(s) == SubSeq(s, RunLen(s, 1, WhiteSpace) + 1, Len(s))

RECURSIVE trimEnd(_)
trimEnd(s) ==
    IF s # "" /\ IsSpace(Ch(s, Len(s)))
    THEN trimEnd(SubSeq(s, 1, Len(s) - 1))
    ELSE s

trim(s) == trimEnd(trimStart(s))

\* String.prototype.split('\n')
RECURSIVE split(_)
split(s) ==
    LET i == indexOf(s, "\n")
    IN  IF i = 0 THEN <<s>>
        ELSE <<SubSeq(s, 1, i - 1)>> \o split(SubSeq(s, i + 1, Len(s)))

\* decimal text of a non-negative integer
RECURSIVE Dec(_)
Dec(n) == IF n < 10 THEN Ch(Digits, n + 1)
          ELSE Dec(n \div 10) \o Ch(Digits, (n % 10) + 1)

RECURSIVE Pad(_, _)
Pad(n, w) == IF w = 0 THEN "" ELSE Pad(n \div 10, w - 1) \o Ch(Digits, (n % 10) + 1)

\* value of a digit string
RECURSIVE Num(_)
Num(s) == IF s = "" THEN 0
          ELSE 10 * Num(SubSeq(s, 1, Len(s) - 1)) + DigitVal(Ch(s, Len(s)))

\* the < of JavaScript on strings, over the characters ids are made of
CharCodes == "-0123456789glo"
CharCode(c) == CHOOSE i \in 1..Len(CharCodes) : Ch(CharCodes, i) = c

RECURSIVE StrLess(_, _)
StrLess(a, b) ==
    IF b = "" THEN FALSE
    ELSE IF a = "" THEN TRUE
    ELSE IF Head(a) = Head(b) THEN StrLess(Tail(a), Tail(b))
    ELSE CharCode(Head(a)) < CharCode(Head(b))

---------------------------------------------------------------------------
(* Level Classifier: src/src/App.tsx detectLogLevel                        *)

Levels == {"debug", "info", "warn", "error", "fatal"}

\* the classifier with the warn rule tried before the error rule
detectLogLevel_WarnFirst(text) ==
    LET lowerText == toLowerCase(text)
    IN  IF includes(lowerText, "fatal") \/ includes(lowerText, "critical")
        THEN "fatal"
        ELSE IF includes(lowerText, "warn") \/ includes(lowerText, "warning")
        THEN "warn"
        ELSE IF \/ includes(lowerText, "error")
                \/ includes(lowerText, "err]")
                \/ lowerText = "error"
        THEN "error"
        ELSE IF includes(lowerText, "debug") \/ includes(lowerText, "dbg")
        THEN "debug"
        ELSE "info"

detectLogLevel(text) ==
    LET lowerText == toLowerCase(text)
    IN  IF includes(lowerText, "fatal") \/ includes(lowerText, "critical")
        THEN "fatal"
        ELSE IF \/ includes(lowerText, "error")
                \/ includes(lowerText, "err]")
                \/ lowerText = "error"
        THEN "error"
        ELSE IF includes(lowerText, "warn") \/ includes(lowerText, "warning")
        THEN "warn"
        ELSE IF includes(lowerText, "debug") \/ includes(lowerText, "dbg")
        THEN "debug"
        ELSE IF includes(lowerText, "info")
        THEN "info"
        ELSE "info"

---------------------------------------------------------------------------
(* JavaScript values as JSON.parse produces them.  A number is kept as its *)
(* decimal text; the modelled literals are integers without exponent, and  *)
(* string literals carry no escape sequences.                              *)

JStr(s)  == [t |-> "str",  x |-> s]
JNum(s)  == [t |-> "num",  x |-> s]
JBool(b) == [t |-> "bool", x |-> b]
JNull    == [t |-> "null", x |-> ""]
JObj(kv) == [t |-> "obj",  x |-> kv]
JArr(vs) == [t |-> "arr",  x |-> vs]
Undefined == [t |-> "undef", x |-> ""]

\* ToBoolean
Truthy(v) ==
    CASE v.t = "str"  -> v.x # ""
      [] v.t = "num"  -> \E i \in 1..RunLenNot(v.x, 1, {"e", "E"}) :
                            Ch(v.x, i) \in DigitSet \ {"0"}
      [] v.t = "bool" -> v.x
      [] v.t \in {"null", "undef"} -> FALSE
      [] OTHER -> TRUE

\* a || b
Or(a, b) == IF Truthy(a) THEN a ELSE b

HasKey(o, k) == \E n \in 1..Len(o.x) : o.x[n].k = k

\* property read o.k on a decoded object
Get(o, k) ==
    IF HasKey(o, k)
    THEN o.x[CHOOSE n \in 1..Len(o.x) : o.x[n].k = k].v
    ELSE Undefined

\* property write: a repeated key keeps its first position, last value wins
Put(kv, k, v) ==
    IF \E n \in 1..Len(kv) : kv[n].k = k
    THEN [n \in 1..Len(kv) |-> IF kv[n].k = k THEN [k |-> k, v |-> v] ELSE kv[n]]
    ELSE Append(kv, [k |-> k, v |-> v])

JsonWs == {" ", "\t", "\n", "\r"}
SkipWs(s, i) == i + RunLen(s, i, JsonWs)

Fail == [ok |-> FALSE, v |-> Undefined, i |-> 0]
Good(v, i) == [ok |-> TRUE, v |-> v, i |-> i]

\* characters a JSON string literal may hold unescaped
NotInString == {"\"", "\\", "\t", "\n", "\r", "\f"}
StringBody(s, i) == RunLenNot(s, i, NotInString)

ParseStringLit(s, i) ==
    IF i > Len(s) \/ Ch(s, i) # "\"" THEN Fail
    ELSE LET n == StringBody(s, i + 1)
         IN  IF StartsAt(s, i + 1 + n, "\"")
             THEN Good(SubSeq(s, i + 1, i + n), i + n + 2)
             ELSE Fail

ParseNumberLit(s, i) ==
    LET neg == StartsAt(s, i, "-")
        j   == IF neg THEN i + 1 ELSE i
        n   == IF StartsAt(s, j, "0") THEN 1 ELSE RunLen(s, j, DigitSet)
        end == j + n
    IN  IF n = 0 THEN Fail
        ELSE IF end <= Len(s) /\ Ch(s, end) \in {".", "e", "E"} THEN Fail
        ELSE Good(JNum(SubSeq(s, i, end - 1)), end)

RECURSIVE ParseValue(_, _)
RECURSIVE ParseMembers(_, _, _)
RECURSIVE ParseElements(_, _, _)

ParseValue(s, i) ==
    LET j == SkipWs(s, i)
    IN  IF j > Len(s) THEN Fail
        ELSE IF Ch(s, j) = "{" THEN
            LET k == SkipWs(s, j + 1)
            IN  IF StartsAt(s, k, "}") THEN Good(JObj(<<>>), k + 1)
                ELSE ParseMembers(s, k, <<>>)
        ELSE IF Ch(s, j) = "[" THEN
            LET k == SkipWs(s, j + 1)
            IN  IF StartsAt(s, k, "]") THEN Good(JArr(<<>>), k + 1)
                ELSE ParseElements(s, k, <<>>)
        ELSE IF Ch(s, j) = "\"" THEN
            LET r == ParseStringLit(s, j)
            IN  IF r.ok THEN Good(JStr(r.v), r.i) ELSE Fail
        ELSE IF StartsAt(s, j, "true")  THEN Good(JBool(TRUE), j + 4)
        ELSE IF StartsAt(s, j, "false") THEN Good(JBool(FALSE), j + 5)
        ELSE IF StartsAt(s, j, "null")  THEN Good(JNull, j + 4)
        ELSE ParseNumberLit(s, j)

\* "key" : value  ( , "key" : value )*  }
ParseMembers(s, i, acc) ==
    LET key == ParseStringLit(s, SkipWs(s, i))
    IN  IF ~key.ok THEN Fail
        ELSE LET c == SkipWs(s, key.i)
             IN  IF ~StartsAt(s, c, ":") THEN Fail
                 ELSE LET val == ParseValue(s, c + 1)
                      IN  IF ~val.ok THEN Fail
                          ELSE LET e   == SkipWs(s, val.i)
                                   kv2 == Put(acc, key.v, val.v)
                               IN  IF StartsAt(s, e, ",")
                                   THEN ParseMembers(s, e + 1, kv2)
                                   ELSE IF StartsAt(s, e, "}")
                                   THEN Good(JObj(kv2), e + 1)
                                   ELSE Fail

\* value ( , value )* ]
ParseElements(s, i, acc) ==
    LET val == ParseValue(s, i)
    IN  IF ~val.ok THEN Fail
        ELSE LET e == SkipWs(s, val.i)
             IN  IF StartsAt(s, e, ",")
                 THEN ParseElements(s, e + 1, Append(acc, val.v))
                 ELSE IF StartsAt(s, e, "]")
                 THEN Good(JArr(Append(acc, val.v)), e + 1)
                 ELSE Fail

\* JSON.parse(text): ok = FALSE stands for the SyntaxError it throws
JSONparse(text) ==
    LET r == ParseValue(text, 1)
    IN  IF r.ok /\ SkipWs(text, r.i) = Len(text) + 1 THEN r ELSE Fail

NumText(x) == IF x = "-0" THEN "0" ELSE x

RECURSIVE JSONstringify(_)
RECURSIVE StringifyMembers(_, _)
RECURSIVE StringifyElements(_, _)

\* JSON.stringify(value) without indentation
JSONstringify(v) ==
    CASE v.t = "str"  -> "\"" \o v.x \o "\""
      [] v.t = "num"  -> NumText(v.x)
      [] v.t = "bool" -> IF v.x THEN "true" ELSE "false"
      [] v.t = "null" -> "null"
      [] v.t = "obj"  -> "{" \o StringifyMembers(v.x, 1) \o "}"
      [] v.t = "arr"  -> "[" \o StringifyElements(v.x, 1) \o "]"

StringifyMembers(kv, n) ==
    IF n > Len(kv) THEN ""
    ELSE (IF n > 1 THEN "," ELSE "")
         \o "\"" \o kv[n].k \o "\":" \o JSONstringify(kv[n].v)
         \o StringifyMembers(kv, n + 1)

StringifyElements(vs, n) ==
    IF n > Len(vs) THEN ""
    ELSE (IF n > 1 THEN "," ELSE "")
         \o JSONstringify(vs[n]) \o StringifyElements(vs, n + 1)

RECURSIVE ToStringJS(_)
RECURSIVE JoinElements(_, _)

\* String(value): ok = FALSE stands for the TypeError thrown when an object
\* cannot be converted to a primitive (it has an own, non-callable toString)
ToStringJS(v) ==
    CASE v.t = "str"   -> [ok |-> TRUE, s |-> v.x]
      [] v.t = "num"   -> [ok |-> TRUE, s |-> NumText(v.x)]
      [] v.t = "bool"  -> [ok |-> TRUE, s |-> IF v.x THEN "true" ELSE "false"]
      [] v.t = "null"  -> [ok |-> TRUE, s |-> "null"]
      [] v.t = "undef" -> [ok |-> TRUE, s |-> "undefined"]
      [] v.t = "obj"   -> IF HasKey(v, "toString")
                          THEN [ok |-> FALSE, s |-> ""]
                          ELSE [ok |-> TRUE, s |-> "[object Object]"]
      [] v.t = "arr"   -> JoinElements(v.x, 1)

\* Array.prototype.join(','): null elements give the empty string
JoinElements(vs, n) ==
    IF n > Len(vs) THEN [ok |-> TRUE, s |-> ""]
    ELSE LET h == IF vs[n].t = "null" THEN [ok |-> TRUE, s |-> ""]
                  ELSE ToStringJS(vs[n])
             r == JoinElements(vs, n + 1)
         IN  [ok |-> h.ok /\ r.ok,
              s  |-> (IF n > 1 THEN "," ELSE "") \o h.s \o r.s]

---------------------------------------------------------------------------
(* Dates.  Date.parse is modelled for the ECMAScript date-time string      *)
(* format (YYYY[-MM[-DD]][THH:mm[:ss[.s+]][Z|+HH:mm|-HH:mm]]); any other   *)
(* text is an invalid date.  A date-time without zone is local time, and   *)
(* the modelled environment runs in UTC.                                   *)

NaN == [ok |-> FALSE, t |-> 0]
Instant(t) == [ok |-> TRUE, t |-> t]

IsLeap(y) == (y % 4 = 0 /\ y % 100 # 0) \/ y % 400 = 0

DaysInMonth(y, m) ==
    IF m = 2 THEN (IF IsLeap(y) THEN 29 ELSE 28)
    ELSE IF m \in {4, 6, 9, 11} THEN 30 ELSE 31

\* days from 1970-01-01 to y-m-d in the proleptic Gregorian calendar
DaysFromCivil(y, m, d) ==
    LET yy  == IF m <= 2 THEN y - 1 ELSE y
        era == yy \div 400
        yoe == yy - era * 400
        doy == (153 * (IF m > 2 THEN m - 3 ELSE m + 9) + 2) \div 5 + d - 1
        doe == yoe * 365 + yoe \div 4 - yoe \div 100 + doy
    IN  era * 146097 + doe - 719468

\* milliseconds from the model epoch (day 19723 of Unix time)
MakeTime(y, m, d, hh, mi, ss, ms) ==
    (((DaysFromCivil(y, m, d) - 19723) * 24 + hh) * 60 + mi) * 60000
        + ss * 1000 + ms

\* s matches shape from position i: d is \d, w is \w, the rest is literal
ShapeAt(s, i, shape) ==
    /\ i >= 1
    /\ i + Len(shape) - 1 <= Len(s)
    /\ \A k \in 1..Len(shape) :
          LET p == Ch(shape, k)
              c == Ch(s, i + k - 1)
          IN  CASE p = "d" -> IsDigit(c)
                [] p = "w" -> IsWord(c)
                [] OTHER   -> c = p

\* the first three fraction digits, as milliseconds
FracMs(f) == Num(SubSeq(f \o "00", 1, 3))

\* length of the date part YYYY[-MM[-DD]] at the head of s, 0 if none
DateLen(s) ==
    IF ShapeAt(s, 1, "dddd-dd-dd") THEN 10
    ELSE IF ShapeAt(s, 1, "dddd-dd") THEN 7
    ELSE IF ShapeAt(s, 1, "dddd") THEN 4 ELSE 0

\* length of the time part HH:mm[:ss] at position tp, 0 if none
TimeLen(s, tp) ==
    IF ShapeAt(s, tp, "dd:dd:dd") THEN 8
    ELSE IF ShapeAt(s, tp, "dd:dd") THEN 5 ELSE 0

\* number of fraction digits after a seconds field that ends before fp
FracDigits(s, fp, tlen) ==
    IF tlen = 8 /\ StartsAt(s, fp, ".")
    THEN RunLen(s, fp + 1, DigitSet) ELSE 0

\* the instant written in s, whose date part has dlen characters, time part
\* tlen characters and fraction fn digits
DateFromParts(s, dlen, tlen, fn) ==
    LET y    == Num(SubSeq(s, 1, 4))
        m    == IF dlen >= 7 THEN Num(SubSeq(s, 6, 7)) ELSE 1
        d    == IF dlen = 10 THEN Num(SubSeq(s, 9, 10)) ELSE 1
        hasT == StartsAt(s, dlen + 1, "T")
        tp   == dlen + 2
        hh   == Num(SubSeq(s, tp, tp + 1))
        mi   == Num(SubSeq(s, tp + 3, tp + 4))
        ss   == IF tlen = 8 THEN Num(SubSeq(s, tp + 6, tp + 7)) ELSE 0
        fp   == tp + tlen
        ms   == IF fn > 0 THEN FracMs(SubSeq(s, fp + 1, fp + fn)) ELSE 0
        zp   == IF fn > 0 THEN fp + 1 + fn ELSE fp
        zlen == IF StartsAt(s, zp, "Z") THEN 1
                ELSE IF /\ zp <= Len(s)
                        /\ Ch(s, zp) \in {"+", "-"}
                        /\ ShapeAt(s, zp + 1, "dd:dd") THEN 6 ELSE 0
        zh   == Num(SubSeq(s, zp + 1, zp + 2))
        zm   == Num(SubSeq(s, zp + 4, zp + 5))
        off  == IF zlen = 6
                THEN (IF Ch(s, zp) = "-" THEN -1 ELSE 1) * (zh * 60 + zm)
                ELSE 0
        dateOk == dlen > 0 /\ m \in 1..12 /\ d \in 1..DaysInMonth(y, m)
        timeOk == /\ tlen > 0
                  /\ (StartsAt(s, fp, ".") => fn > 0)
                  /\ zp + zlen = Len(s) + 1
                  /\ mi <= 59 /\ ss <= 59
                  /\ (hh <= 23 \/ (hh = 24 /\ mi = 0 /\ ss = 0 /\ ms = 0))
                  /\ (zlen = 6 => zh <= 23 /\ zm <= 59)
    IN  IF dateOk /\ ~hasT /\ Len(s) = dlen
        THEN Instant(MakeTime(y, m, d, 0, 0, 0, 0))
        ELSE IF dateOk /\ hasT /\ timeOk
        THEN Instant(MakeTime(y, m, d, hh, mi, ss, ms) - off * 60000)
        ELSE NaN

\* Date.parse(s)
DateParse(s) ==
    LET dlen == DateLen(s)
        tlen == TimeLen(s, dlen + 2)
    IN  DateFromParts(s, dlen, tlen, FracDigits(s, dlen + 2 + tlen, tlen))

\* new Date(v).getTime() for a decoded value v; a number is Unix time in ms
DateOf(v) ==
    CASE v.t = "str"  -> DateParse(v.x)
      [] v.t = "num"  ->
           LET neg == StartsAt(v.x, 1, "-")
               a   == IF neg THEN Tail(v.x) ELSE v.x
               hi  == Num(SubSeq(a, 1, Len(a) - 5))
               lo  == Num(SubSeq(a, Max({1, Len(a) - 4}), Len(a)))
               sg  == IF neg THEN -1 ELSE 1
           IN  Instant((sg * hi - 17040672) * 100000 + sg * lo)
      [] v.t = "bool" -> Instant((IF v.x THEN 1 ELSE 0) - 17040672 * 100000)
      [] v.t = "null" -> Instant(0 - 17040672 * 100000)
      [] v.t = "arr"  -> LET j == ToStringJS(v)
                         IN  IF j.ok THEN DateParse(j.s) ELSE NaN
      [] OTHER        -> NaN

\* new Date(t).toISOString(), for instants of January 2024
toISOString(t) ==
    "2024-01-" \o Pad(1 + t \div 86400000, 2)
    \o "T" \o Pad((t \div 3600000) % 24, 2)
    \o ":" \o Pad((t \div 60000) % 60, 2)
    \o ":" \o Pad((t \div 1000) % 60, 2)
    \o "." \o Pad(t % 1000, 3) \o "Z"

\* the decimal text of Date.now() when the clock reads t
DateNowText(t) == Dec(17040672 + t \div 100000) \o Pad(t % 100000, 5)

---------------------------------------------------------------------------
(* Timestamp Extractor: src/src/App.tsx extractTimestamp                   *)

NoMatch == [found |-> FALSE, s |-> ""]
Match(s) == [found |-> TRUE, s |-> s]

\* length of the optional group (\.\d+)? at position i
FracLen(s, i) ==
    IF StartsAt(s, i, ".") /\ RunLen(s, i + 1, DigitSet) > 0
    THEN 1 + RunLen(s, i + 1, DigitSet) ELSE 0

\* length of the optional group (Z|[+-]\d{2}:?\d{2})? at position i
ZoneLen(s, i) ==
    IF StartsAt(s, i, "Z") THEN 1
    ELSE IF i <= Len(s) /\ Ch(s, i) \in {"+", "-"} /\ ShapeAt(s, i + 1, "dd:dd")
    THEN 6
    ELSE IF i <= Len(s) /\ Ch(s, i) \in {"+", "-"} /\ ShapeAt(s, i + 1, "dddd")
    THEN 5
    ELSE 0

\* /\d{4}-\d{2}-\d{2}T\d{2}:\d{2}:\d{2}(\.\d+)?(Z|[+-]\d{2}:?\d{2})?/
IsoAt(s, i) == ShapeAt(s, i, "dddd-dd-ddTdd:dd:dd")
IsoEnd(s, i) == LET f == i + 19 + FracLen(s, i + 19)
                IN  f + ZoneLen(s, f) - 1

\* /\d{4}-\d{2}-\d{2}\s+\d{2}:\d{2}:\d{2}(\.\d+)?/
CommonAt(s, i) ==
    /\ ShapeAt(s, i, "dddd-dd-dd")
    /\ RunLen(s, i + 10, WhiteSpace) > 0
    /\ ShapeAt(s, i + 10 + RunLen(s, i + 10, WhiteSpace), "dd:dd:dd")
CommonEnd(s, i) == LET e == i + 10 + RunLen(s, i + 10, WhiteSpace) + 8
                   IN  e + FracLen(s, e) - 1

\* /\d{2}\/\w{3}\/\d{4}:\d{2}:\d{2}:\d{2}/
ApacheAt(s, i) == ShapeAt(s, i, "dd/www/dddd:dd:dd:dd")

MonthNames == <<"Jan", "Feb", "Mar", "Apr", "May", "Jun",
                "Jul", "Aug", "Sep", "Oct", "Nov", "Dec">>

\* months[name]: the two-digit number, or undefined in the template string
MonthOf(name) ==
    IF \E n \in 1..12 : MonthNames[n] = name
    THEN Pad(CHOOSE n \in 1..12 : MonthNames[n] = name, 2)
    ELSE "undefined"

extractTimestamp(line) ==
    LET P == 1..Len(line)
        isoS    == {i \in P : IsoAt(line, i)}
        commonS == {i \in P : CommonAt(line, i)}
        apacheS == {i \in P : ApacheAt(line, i)}
    IN  IF isoS # {}
        THEN Match(SubSeq(line, Min(isoS), IsoEnd(line, Min(isoS))))
        ELSE IF commonS # {}
        THEN Match(replaceFirst(SubSeq(line, Min(commonS),
                                       CommonEnd(line, Min(commonS))),
                                " ", "T") \o "Z")
        ELSE IF apacheS # {}
        THEN LET a == Min(apacheS)
             IN  Match(SubSeq(line, a + 7, a + 10) \o "-"
                       \o MonthOf(SubSeq(line, a + 3, a + 5)) \o "-"
                       \o SubSeq(line, a, a + 1) \o "T"
                       \o SubSeq(line, a + 12, a + 13) \o ":"
                       \o SubSeq(line, a + 15, a + 16) \o ":"
                       \o SubSeq(line, a + 18, a + 19) \o "Z")
        ELSE NoMatch

---------------------------------------------------------------------------
(* Entries and the three line parsers: src/src/App.tsx                     *)
(* pid, hostname and message_field are copied through by the code and read *)
(* by none of the modelled operations; they are left out of the record.    *)

\* generateId reading the counter without advancing it
generateId_NoIncrement(t, counter) ==
    [id |-> "log-" \o DateNowText(t) \o "-" \o Dec(counter), n |-> counter]

\* generateId: `log-${Date.now()}-${idCounter++}`; n is the counter after
generateId(t, counter) ==
    [id |-> "log-" \o DateNowText(t) \o "-" \o Dec(counter), n |-> counter + 1]

LogEntry(id, dt, level, message, data, raw) ==
    [id |-> id, dt |-> dt, level |-> level, message |-> message,
     data |-> data, raw |-> raw]

\* a parser's outcome: an entry (ok) or null, and the id counter afterwards
Null(counter) == [ok |-> FALSE, entry |-> None, n |-> counter]
Made(entry, counter) == [ok |-> TRUE, entry |-> entry, n |-> counter]

\* level, timestamp and message picked from the decoded record (lines
\* 63-72), without the current-time default
jsonFields_NoDefault(parsed, t) ==
    [levelStr  |-> ToStringJS(Or(Or(Or(Or(Get(parsed, "level"),
                                          Get(parsed, "severity")),
                                       Get(parsed, "log_level")),
                                    Get(parsed, "loglevel")),
                                 JStr("info"))),
     timestamp |-> Or(Or(Or(Or(Or(Get(parsed, "dt"), Get(parsed, "timestamp")),
                               Get(parsed, "time")),
                            Get(parsed, "@timestamp")),
                         Get(parsed, "date")),
                      Get(parsed, "datetime")),
     message   |-> Or(Or(Or(Or(Or(Get(parsed, "message"), Get(parsed, "msg")),
                               Get(parsed, "text")),
                            Get(parsed, "log")),
                         Get(parsed, "body")),
                      JStr(JSONstringify(parsed)))]

\* a ?? b: the left side unless it is null or undefined
Nullish(a, b) == IF a.t \in {"null", "undef"} THEN b ELSE a

\* the fields picked with ?? in place of ||, by presence and not by truth
jsonFields_Nullish(parsed, t) ==
    [levelStr  |-> ToStringJS(Nullish(Nullish(Nullish(Nullish(
                                   Get(parsed, "level"),
                                   Get(parsed, "severity")),
                                   Get(parsed, "log_level")),
                                   Get(parsed, "loglevel")),
                                   JStr("info"))),
     timestamp |-> Nullish(Nullish(Nullish(Nullish(Nullish(Nullish(
                       Get(parsed, "dt"), Get(parsed, "timestamp")),
                       Get(parsed, "time")),
                       Get(parsed, "@timestamp")),
                       Get(parsed, "date")),
                       Get(parsed, "datetime")),
                       JStr(toISOString(t))),
     message   |-> Nullish(Nullish(Nullish(Nullish(Nullish(
                       Get(parsed, "message"), Get(parsed, "msg")),
                       Get(parsed, "text")),
                       Get(parsed, "log")),
                       Get(parsed, "body")),
                       JStr(JSONstringify(parsed)))]

\* lines 63-72: level, timestamp and message picked from the decoded record
\* by the || chains; levelStr is String(...) of the level, which may throw
jsonFields(parsed, t) ==
    [levelStr  |-> ToStringJS(Or(Or(Or(Or(Get(parsed, "level"),
                                          Get(parsed, "severity")),
                                       Get(parsed, "log_level")),
                                    Get(parsed, "loglevel")),
                                 JStr("info"))),
     timestamp |-> Or(Or(Or(Or(Or(Or(Get(parsed, "dt"),
                                     Get(parsed, "timestamp")),
                                  Get(parsed, "time")),
                               Get(parsed, "@timestamp")),
                            Get(parsed, "date")),
                         Get(parsed, "datetime")),
                      JStr(toISOString(t))),
     message   |-> Or(Or(Or(Or(Or(Get(parsed, "message"), Get(parsed, "msg")),
                               Get(parsed, "text")),
                            Get(parsed, "log")),
                         Get(parsed, "body")),
                      JStr(JSONstringify(parsed)))]

\* lines 74-84: the entry built from the picked fields f, with the id g
jsonEntry(f, parsed, line, g) ==
    Made(LogEntry(g.id, f.timestamp, detectLogLevel(f.levelStr.s),
                  IF f.message.t = "str" THEN f.message.x
                  ELSE JSONstringify(f.message),
                  parsed, line),
         g.n)

\* the structured-data parser taking its id before it decodes the line
parseJsonLog_IdBeforeDecode(line, t, counter) ==
    LET g == generateId(t, counter)
        p == JSONparse(line)
        f == jsonFields(p.v, t)
    IN  IF ~p.ok \/ ~f.levelStr.ok THEN Null(g.n)
        ELSE jsonEntry(f, p.v, line, g)

\* null when JSON.parse or String(level) throws (the catch), else the entry
parseJsonLog(line, t, counter) ==
    LET p == JSONparse(line)
        f == jsonFields(p.v, t)
    IN  IF ~p.ok \/ ~f.levelStr.ok THEN Null(counter)
        ELSE jsonEntry(f, p.v, line, generateId(t, counter))

\* /^\[([^\]]+)\]\s*\[([^\]]+)\]\s*(.+)$/ : the three groups, or no match
StructuredMatch(line) ==
    LET aLen == RunLenNot(line, 2, {"]"})
        aEnd == 2 + aLen
        bOpen == aEnd + 1 + RunLen(line, aEnd + 1, WhiteSpace)
        bLen == RunLenNot(line, bOpen + 1, {"]"})
        bEnd == bOpen + 1 + bLen
        ws   == RunLen(line, bEnd + 1, WhiteSpace)
        \* \s* is greedy and gives back characters until (.+)$ can match
        K    == {k \in 0..ws :
                   /\ bEnd + k < Len(line)
                   /\ \A n \in (bEnd + k + 1)..Len(line) :
                         Ch(line, n) \notin LineTerminators}
    IN  IF /\ StartsAt(line, 1, "[")
           /\ aLen > 0 /\ StartsAt(line, aEnd, "]")
           /\ StartsAt(line, bOpen, "[")
           /\ bLen > 0 /\ StartsAt(line, bEnd, "]")
           /\ K # {}
        THEN [found |-> TRUE,
              timestampPart |-> SubSeq(line, 2, aEnd - 1),
              levelPart     |-> SubSeq(line, bOpen + 1, bEnd - 1),
              rest          |-> SubSeq(line, bEnd + Max(K) + 1, Len(line))]
        ELSE [found |-> FALSE, timestampPart |-> "", levelPart |-> "",
              rest |-> ""]

\* lines 102-111: the rest of the line decoded when it looks like an object
\* (ok = FALSE: not tried, or JSON.parse threw and the catch kept the text)
structuredData(rest) ==
    IF startsWith(trim(rest), "{") THEN JSONparse(rest) ELSE Fail

\* lines 95-120: the entry of a line that matched as m, p being the outcome
\* of decoding its rest
structuredEntry(m, p, line, g) ==
    LET msgValue == Or(Or(Get(p.v, "message"), Get(p.v, "msg")), JStr(m.rest))
        message == IF ~p.ok THEN m.rest
                   ELSE IF msgValue.t = "str" THEN msgValue.x
                   ELSE JSONstringify(msgValue)
        dt == IF includes(m.timestampPart, "T") THEN m.timestampPart
              ELSE replaceFirst(m.timestampPart, " ", "T") \o "Z"
    IN  Made(LogEntry(g.id, JStr(dt), detectLogLevel(m.levelPart), message,
                      IF p.ok THEN p.v ELSE Undefined, line),
             g.n)

parseStructuredTextLog(line, t, counter) ==
    LET m == StructuredMatch(line)
    IN  IF ~m.found THEN Null(counter)
        ELSE structuredEntry(m, structuredData(m.rest), line,
                             generateId(t, counter))

LevelTags == {"INFO", "WARN", "WARNING", "ERROR", "DEBUG", "FATAL", "CRITICAL"}

\* s.replace(/^\d{4}-\d{2}-\d{2}\s+\d{2}:\d{2}:\d{2}(\.\d+)?\s*/, '')
StripLeadingCommon(s) ==
    IF CommonAt(s, 1)
    THEN LET e == CommonEnd(s, 1) + 1
         IN  SubSeq(s, e + RunLen(s, e, WhiteSpace), Len(s))
    ELSE s

\* s.replace(/^\s*\[(INFO|WARN|WARNING|ERROR|DEBUG|FATAL|CRITICAL)\]\s*/i, '')
StripLeadingLevel(s) ==
    LET b    == 1 + RunLen(s, 1, WhiteSpace)
        low  == toLowerCase(s)
        tags == {g \in LevelTags :
                   StartsAt(low, b, "[" \o toLowerCase(g) \o "]")}
    IN  IF tags = {} THEN s
        ELSE LET g == CHOOSE x \in tags : TRUE
                 e == b + Len(g) + 2
             IN  SubSeq(s, e + RunLen(s, e, WhiteSpace), Len(s))

\* the message of a plain-text line once timestamp and level marker are
\* removed (lines 131-140), possibly empty
PlainCleanup(line) ==
    LET timestamp == extractTimestamp(line)
        m1 == IF timestamp.found
              THEN trim(StripLeadingCommon(trim(replaceFirst(line, timestamp.s, ""))))
              ELSE line
    IN  trim(StripLeadingLevel(m1))

\* the plain-text parser keeping an empty cleaned message
parsePlainTextLog_NoFallback(line, t, counter) ==
    LET timestamp == extractTimestamp(line)
        g == generateId(t, counter)
    IN  Made(LogEntry(g.id,
                      JStr(IF timestamp.found THEN timestamp.s
                           ELSE toISOString(t)),
                      detectLogLevel(line), PlainCleanup(line),
                      Undefined, line),
             g.n)

\* the plain-text parser without the current-time default
parsePlainTextLog_NoDefault(line, t, counter) ==
    LET timestamp == extractTimestamp(line)
        message == PlainCleanup(line)
        g == generateId(t, counter)
    IN  Made(LogEntry(g.id, JStr(timestamp.s), detectLogLevel(line),
                      IF message # "" THEN message ELSE line,
                      Undefined, line),
             g.n)

parsePlainTextLog(line, t, counter) ==
    LET timestamp == extractTimestamp(line)
        level     == detectLogLevel(line)
        message   == PlainCleanup(line)
        g == generateId(t, counter)
    IN  Made(LogEntry(g.id,
                      JStr(IF timestamp.found /\ timestamp.s # ""
                           THEN timestamp.s ELSE toISOString(t)),
                      level,
                      IF message # "" THEN message ELSE line,
                      Undefined, line),
             g.n)

---------------------------------------------------------------------------
(* Line Dispatcher: src/src/App.tsx parseLogFile                           *)

\* lines 167-169: the bracketed parser runs when the JSON attempt j gave null
orStructured(j, line, t) ==
    IF ~j.ok THEN parseStructuredTextLog(line, t, j.n) ELSE j

\* the fallback giving up on a line that starts with {
orPlain_JsonOnly(s, line, t) ==
    IF ~s.ok /\ ~startsWith(trim(line), "{")
    THEN parsePlainTextLog(line, t, s.n) ELSE s

\* lines 172-174: the plain-text parser runs when the attempt s gave null
orPlain(s, line, t) ==
    IF ~s.ok THEN parsePlainTextLog(line, t, s.n) ELSE s

\* one iteration of the for loop: JSON first, then bracketed, then plain
parseLine(line, t, counter) ==
    orPlain(orStructured(IF startsWith(trim(line), "{")
                         THEN parseJsonLog(line, t, counter)
                         ELSE Null(counter),
                         line, t),
            line, t)

NonBlank(line) == trim(line) # ""

\* Array.from(levelsSet).sort(): the default sort orders by code unit
LevelsSorted == <<"debug", "error", "fatal", "info", "warn">>
SortLevels(S) == SelectSeq(LevelsSorted, LAMBDA l : l \in S)

\* lines 177-184: the entry is pushed, its level recorded, and minDate and
\* maxDate move when its dt (entryDate) is a valid instant
pushEntry(acc, entry, entryDate, counter, t) ==
    [entries   |-> Append(acc.entries, entry),
     levelsSet |-> acc.levelsSet \cup {entry.level},
     minDate   |-> IF entryDate.ok
                      /\ (~acc.minDate.ok \/ entryDate.t < acc.minDate.t)
                   THEN entryDate ELSE acc.minDate,
     maxDate   |-> IF entryDate.ok
                      /\ (~acc.maxDate.ok \/ entryDate.t > acc.maxDate.t)
                   THEN entryDate ELSE acc.maxDate,
     n |-> counter, t |-> t]

\* the loop body after the parsers returned r at clock reading t
loopBody(acc, r, t) ==
    IF r.ok THEN pushEntry(acc, r.entry, DateOf(r.entry.dt), r.n, t)
    ELSE [acc EXCEPT !.n = r.n, !.t = t]

\* the clock reading when line i is reached: ticks[i] ms after the last one
clockAt(acc, ticks, i) == acc.t + ticks[i]

\* the loop of parseLogFile over lines[i..]
RECURSIVE ParseLoop(_, _, _, _)
ParseLoop(lines, i, ticks, acc) ==
    IF i > Len(lines) THEN acc
    ELSE ParseLoop(lines, i + 1, ticks,
                   loopBody(acc,
                            parseLine(lines[i], clockAt(acc, ticks, i), acc.n),
                            clockAt(acc, ticks, i)))

Lines(content) == SelectSeq(split(content), NonBlank)

\* the returned ParsedLog reporting the earliest date as the end of the range
ParsedLog_EndIsMin(acc) ==
    [entries   |-> acc.entries,
     levels    |-> SortLevels(acc.levelsSet),
     dateRange |-> IF acc.minDate.ok /\ acc.maxDate.ok
                   THEN [start |-> acc.minDate.t, end |-> acc.minDate.t]
                   ELSE None,
     idCounter |-> acc.n,
     now       |-> acc.t]

\* lines 188-192: the ParsedLog returned, with the counter and clock afterwards
ParsedLog(acc) ==
    [entries   |-> acc.entries,
     levels    |-> SortLevels(acc.levelsSet),
     dateRange |-> IF acc.minDate.ok /\ acc.maxDate.ok
                   THEN [start |-> acc.minDate.t, end |-> acc.maxDate.t]
                   ELSE None,
     idCounter |-> acc.n,
     now       |-> acc.t]

\* parseLogFile(content) called when the clock reads t and idCounter is
\* counter
parseLogFile(content, t, counter, ticks) ==
    ParsedLog(ParseLoop(Lines(content), 1, ticks,
                        [entries |-> <<>>, levelsSet |-> {}, minDate |-> NaN,
                         maxDate |-> NaN, n |-> counter, t |-> t]))

---------------------------------------------------------------------------
(* Filter Engine: src/src/App.tsx filterLogs                               *)

\* filterLogs comparing the search text without folding its case
filterLogs_CaseSensitive(entries, search, levels) ==
    LET Keep(entry) ==
          IF Len(levels) > 0 /\ ~\E n \in 1..Len(levels) : levels[n] = entry.level
          THEN FALSE
          ELSE IF search # ""
          THEN \/ includes(toLowerCase(entry.message), search)
               \/ /\ Truthy(entry.data)
                  /\ includes(toLowerCase(JSONstringify(entry.data)), search)
          ELSE TRUE
    IN  SelectSeq(entries, Keep)

\* the search run with one shared sticky pattern, which after a hit fails on
\* the next entry it is tried on: each second hit is dropped
filterLogs_StickySearch(entries, search, levels) ==
    LET Keep(entry) ==
          IF Len(levels) > 0 /\ ~\E n \in 1..Len(levels) : levels[n] = entry.level
          THEN FALSE
          ELSE IF search # ""
          THEN \/ includes(toLowerCase(entry.message), toLowerCase(search))
               \/ /\ Truthy(entry.data)
                  /\ includes(toLowerCase(JSONstringify(entry.data)),
                              toLowerCase(search))
          ELSE TRUE
        hits == SelectSeq(entries, Keep)
    IN  IF search = "" THEN hits
        ELSE [n \in 1..((Len(hits) + 1) \div 2) |-> hits[2 * n - 1]]

filterLogs(entries, search, levels) ==
    LET Keep(entry) ==
          IF Len(levels) > 0 /\ ~\E n \in 1..Len(levels) : levels[n] = entry.level
          THEN FALSE
          ELSE IF search # ""
          THEN LET searchLower == toLowerCase(search)
                   matchesMessage ==
                       includes(toLowerCase(entry.message), searchLower)
                   matchesData ==
                       /\ Truthy(entry.data)
                       /\ includes(toLowerCase(JSONstringify(entry.data)),
                                   searchLower)
               IN  matchesMessage \/ matchesData
          ELSE TRUE
    IN  SelectSeq(entries, Keep)

---------------------------------------------------------------------------
(* Timeline Bucketizer: src/src/components/Timeline.tsx, the buckets memo  *)
(* The code divides in floating point; here the quotients are exact, with  *)
(* numBuckets carried as tenths (entries.length / 10 need not be whole).   *)

\* entries.map(e => new Date(e.dt).getTime()).filter(d => !isNaN(d))
ValidDates(entries) ==
    LET all == [n \in 1..Len(entries) |-> DateOf(entries[n].dt)]
    IN  SelectSeq(all, LAMBDA d : d.ok)

\* Math.min(100, Math.max(20, entries.length / 10)), times ten
NumBucketsTenths(entries) ==
    LET l == Len(entries)
    IN  IF l < 200 THEN 200 ELSE IF l > 1000 THEN 1000 ELSE l

\* Math.floor((time - minTime) / bucketSize), bucketSize = range / numBuckets || 1
BucketIndex(time, minTime, range, tenths) ==
    IF range = 0 THEN time - minTime
    ELSE ((time - minTime) * tenths) \div (range * 10)

\* the bucket time without the minTime offset
BucketTime_NoOffset(index, minTime, range, tenths) ==
    IF range = 0 THEN index
    ELSE (index * range * 10) \div tenths

\* new Date(minTime + bucketIndex * bucketSize): the time value is truncated
BucketTime(index, minTime, range, tenths) ==
    IF range = 0 THEN minTime + index
    ELSE LET num == index * range * 10
             fl  == num \div tenths
             whole == num % tenths = 0
         IN  IF whole \/ minTime + fl >= 0 THEN minTime + fl
             ELSE minTime + fl + 1

ZeroByLevel == [l \in Levels |-> 0]

\* the loop body putting a fresh bucket in place of the one already in the map
countEntry_Overwrite(bucketMap, bucketIndex, level, bucketTime) ==
    LET bucket == [timestamp |-> bucketTime, count |-> 1,
                   byLevel |-> [ZeroByLevel EXCEPT ![level] = 1]]
    IN  [k \in DOMAIN bucketMap \cup {bucketIndex} |->
            IF k = bucketIndex THEN bucket ELSE bucketMap[k]]

\* lines 44-54: the bucket at bucketIndex is created if missing, then its
\* count and its count for the entry's level go up by one
countEntry(bucketMap, bucketIndex, level, bucketTime) ==
    LET bucket == IF bucketIndex \in DOMAIN bucketMap
                  THEN bucketMap[bucketIndex]
                  ELSE [timestamp |-> bucketTime, count |-> 0,
                        byLevel |-> ZeroByLevel]
        bucket2 == [bucket EXCEPT !.count = @ + 1, !.byLevel[level] = @ + 1]
    IN  [k \in DOMAIN bucketMap \cup {bucketIndex} |->
            IF k = bucketIndex THEN bucket2 ELSE bucketMap[k]]

\* lines 38-54: the loop body for an entry whose time is d
fillBucket(bucketMap, level, d, bucketIndex, minTime, range, tenths) ==
    IF ~d.ok THEN bucketMap
    ELSE countEntry(bucketMap, bucketIndex, level,
                    BucketTime(bucketIndex, minTime, range, tenths))

\* the for loop filling bucketMap, from entry i on
RECURSIVE FillBuckets(_, _, _, _, _, _)
FillBuckets(entries, i, minTime, range, tenths, bucketMap) ==
    IF i > Len(entries) THEN bucketMap
    ELSE FillBuckets(entries, i + 1, minTime, range, tenths,
            fillBucket(bucketMap, entries[i].level, DateOf(entries[i].dt),
                       BucketIndex(DateOf(entries[i].dt).t, minTime, range,
                                   tenths),
                       minTime, range, tenths))

\* lines 26-55: the Map<number, TimelineBucket> at the end of the loop
bucketsOver(entries, times) ==
    FillBuckets(entries, 1, Min(times), Max(times) - Min(times),
                NumBucketsTenths(entries), <<>>)

\* lines 20-55: empty when there is no entry or no valid date
bucketMap(entries) ==
    IF Len(entries) = 0 \/ Len(ValidDates(entries)) = 0 THEN <<>>
    ELSE bucketsOver(entries, {d.t : d \in SeqRange(ValidDates(entries))})

\* keys in descending order: .sort((a, b) => b[0] - a[0])
RECURSIVE SortKeys_Descending(_)
SortKeys_Descending(S) ==
    IF S = {} THEN <<>>
    ELSE <<Max(S)>> \o SortKeys_Descending(S \ {Max(S)})

\* keys in ascending order: .sort((a, b) => a[0] - b[0])
RECURSIVE SortKeys(_)
SortKeys(S) == IF S = {} THEN <<>>
               ELSE <<Min(S)>> \o SortKeys(S \ {Min(S)})

\* lines 57-59: the map's buckets in key order
sortedBuckets(m, keys) == [n \in 1..Len(keys) |-> m[keys[n]]]

\* the bucket array handed to the chart
buckets(entries) ==
    sortedBuckets(bucketMap(entries), SortKeys(DOMAIN bucketMap(entries)))

---------------------------------------------------------------------------
(* State at construction.  LogViewer starts with no parsed log, nothing    *)
(* selected and empty filters; the parser module starts with idCounter 0.  *)

Returned(v) == [t |-> "ret", v |-> v]

ViewerInit ==
    /\ parsedLog = None
    /\ selectedEntry = None
    /\ searchQuery = ""
    /\ selectedLevels = <<>>
    /\ readers = <<>>
    /\ lastPicked = None
    /\ lastLoad = None

viewerVars == <<parsedLog, selectedEntry, searchQuery, selectedLevels, readers,
                lastPicked, lastLoad>>

\* every sequence of at most n elements of S
RECURSIVE SeqsUpTo(_, _)
SeqsUpTo(S, n) ==
    IF n = 0 THEN {<<>>}
    ELSE LET shorter == SeqsUpTo(S, n - 1)
         IN  shorter \cup {Append(q, x) : q \in shorter, x \in S}

RECURSIVE Concat(_)
Concat(seq) == IF seq = <<>> THEN "" ELSE Head(seq) \o Concat(Tail(seq))

---------------------------------------------------------------------------
(* detectLogLevel applied to texts assembled from fragments                *)

MaxFragments == 3

Fragments == {"fatal", "CRITICAL", "Error", "[ERR]", "warn", "WARNING",
              "Debug", "dbg", "INFO", "er", "ror", " ", "x"}

Texts == {Concat(q) : q \in SeqsUpTo(Fragments, MaxFragments)}

InitLevel ==
    /\ call \in {[fn |-> "detectLogLevel", text |-> x] : x \in Texts}
    /\ ret = None
    /\ idCounter = 0 /\ now = 0 /\ issued = {}
    /\ ViewerInit

DetectLogLevelCall ==
    /\ call.fn = "detectLogLevel"
    /\ ret = None
    /\ ret' = Returned(detectLogLevel(call.text))
    /\ UNCHANGED <<idCounter, now, issued, viewerVars, call>>

NextLevel == DetectLogLevelCall

SpecLevel == InitLevel /\ [][NextLevel]_vars

\* the rules of the classifier, by priority
LevelRules == << [keys |-> {"fatal", "critical"}, level |-> "fatal"],
                 [keys |-> {"error", "err]"},     level |-> "error"],
                 [keys |-> {"warn"},              level |-> "warn"],
                 [keys |-> {"debug", "dbg"},      level |-> "debug"],
                 [keys |-> {"info"},              level |-> "info"] >>

\* key occurs somewhere in text, letter case ignored
OccursIgnoringCase(text, key) ==
    \E i \in 1..Len(text) :
        /\ i + Len(key) - 1 <= Len(text)
        /\ \A j \in 1..Len(key) : LowerCh(Ch(text, i + j - 1)) = Ch(key, j)

RuleMatches(n, text) ==
    \E key \in LevelRules[n].keys : OccursIgnoringCase(text, key)

FirstRuleLevel(text) ==
    IF \E n \in 1..Len(LevelRules) : RuleMatches(n, text)
    THEN LevelRules[Min({n \in 1..Len(LevelRules) : RuleMatches(n, text)})].level
    ELSE "info"

\* C2 as stated: detectLogLevel returns the level of the first rule, in the
\* order fatal/critical, error/err], warn, debug/dbg, info, whose keyword
\* occurs anywhere in the text whatever its letter case, and info when none
\* does; every text holding both warn and error is an error.
Cex_C2_WarnAndErrorIsError ==
    ret # None =>
        /\ ret.v = FirstRuleLevel(call.text)
        /\ detectLogLevel(toUpperCase(call.text)) = ret.v
        /\ detectLogLevel(toLowerCase(call.text)) = ret.v
        /\ (OccursIgnoringCase(call.text, "warn")
              /\ OccursIgnoringCase(call.text, "error") => ret.v = "error")

\* C2 (amended): detectLogLevel returns the level of the first rule, in the
\* order fatal/critical, error/err], warn, debug/dbg, info, whose keyword
\* occurs anywhere in the text whatever its letter case, and info when none
\* does; the upper-cased and lower-cased text classify alike; a text holding
\* both warn and error is an error unless it also holds fatal or critical,
\* and then it is fatal.
Thm_C2_FirstRuleWins ==
    ret # None =>
        /\ ret.v = FirstRuleLevel(call.text)
        /\ detectLogLevel(toUpperCase(call.text)) = ret.v
        /\ detectLogLevel(toLowerCase(call.text)) = ret.v
        /\ (OccursIgnoringCase(call.text, "warn")
              /\ OccursIgnoringCase(call.text, "error") =>
                ret.v = IF OccursIgnoringCase(call.text, "fatal")
                           \/ OccursIgnoringCase(call.text, "critical")
                        THEN "fatal" ELSE "error")

\* a text with warn before error has been classified as error
Wit_C2_WarnAndError ==
    /\ ret # None
    /\ call.text = "warnError"
    /\ ret.v = "error"

---------------------------------------------------------------------------
(* parseLogFile applied to files assembled from a catalogue of lines       *)

MaxLines == 2
ClockStart == 2500
StartCounter == 9

LineCatalogue ==
    { "  \t",
      "{\"level\":\"warn\",\"message\":\"disk low\",\"dt\":\"2024-01-01T00:00:00Z\"}",
      "{\"msg\":\"\",\"time\":1704067205000,\"severity\":\"[ERR]\"}",
      " {\"time\":\"soon\",\"message\":{\"a\":1}}",
      "{\"message\":\"up\",\"loglevel\":\"DEBUG\"}",
      "{oops",
      "[2024-01-01 00:00:10] [ERROR] connection refused",
      "[main] [warn] {\"msg\":\"hi\"}",
      "2024-01-01 00:00:03.651 INFO started\r",
      "01/Jan/2024:00:00:04 WARN disk at 90%",
      "2024-01-01T00:00:01Z [info]",
      "fatal: no timestamp" }

RECURSIVE JoinLines(_)
JoinLines(q) ==
    IF q = <<>> THEN ""
    ELSE IF Len(q) = 1 THEN q[1]
    ELSE q[1] \o "\n" \o JoinLines(Tail(q))

Contents == {JoinLines(q) : q \in SeqsUpTo(LineCatalogue, MaxLines)}

\* the clock may or may not move on between two lines of one parse
TickChoices(content) ==
    {k \in [1..Len(Lines(content)) -> {0, 1}] : Len(k) > 0 => k[1] = 0}

InitParse ==
    /\ call \in UNION {{[fn |-> "parseLogFile", content |-> c, ticks |-> k] :
                            k \in TickChoices(c)} : c \in Contents}
    /\ ret = None
    /\ idCounter \in {0, StartCounter}
    /\ now = ClockStart
    /\ issued = {}
    /\ ViewerInit

ParseLogFileCall ==
    /\ call.fn = "parseLogFile"
    /\ ret = None
    /\ \E r \in {parseLogFile(call.content, now, idCounter, call.ticks)} :
           /\ ret' = Returned([entries |-> r.entries, levels |-> r.levels,
                               dateRange |-> r.dateRange])
           /\ idCounter' = r.idCounter
           /\ now' = r.now
           /\ issued' = issued \cup {e.id : e \in SeqRange(r.entries)}
    /\ UNCHANGED <<viewerVars, call>>

NextParse == ParseLogFileCall

SpecParse == InitParse /\ [][NextParse]_vars

\* --- what the claims about one parseLogFile call are stated in ---

HasInk(line) == \E i \in 1..Len(line) : Ch(line, i) \notin WhiteSpace

\* the lines of the content that are neither empty nor all-whitespace
KeptLines(content) == SelectSeq(split(content), HasInk)

\* the clock reading when line n of the call is parsed
RECURSIVE ClockAt(_)
ClockAt(n) == IF n = 0 THEN ClockStart ELSE ClockAt(n - 1) + call.ticks[n]

\* the decimal counter an id ends with
IdSuffix(id) ==
    LET p == Max({i \in 1..Len(id) : Ch(id, i) = "-"})
    IN  Num(SubSeq(id, p + 1, Len(id)))

TimestampFields == {"dt", "timestamp", "time", "@timestamp", "date", "datetime"}

\* the parser tier that produces the entry of a line
TierOf(line) ==
    IF startsWith(trim(line), "{") /\ parseJsonLog(line, 0, 0).ok THEN "json"
    ELSE IF StructuredMatch(line).found THEN "bracket"
    ELSE "plain"

\* no timestamp can be taken from the line
Unresolved(line) ==
    LET tier == TierOf(line)
    IN  CASE tier = "json" ->
                LET parsed == JSONparse(line).v
                IN  \A k \in TimestampFields : ~Truthy(Get(parsed, k))
          [] tier = "bracket" -> FALSE
          [] tier = "plain" -> ~extractTimestamp(line).found

ValidInstants(entries) ==
    {DateOf(entries[n].dt).t : n \in {k \in 1..Len(entries) : DateOf(entries[k].dt).ok}}

NumValid(entries) ==
    Cardinality({k \in 1..Len(entries) : DateOf(entries[k].dt).ok})

RECURSIVE SumCounts(_)
SumCounts(bs) == IF bs = <<>> THEN 0 ELSE Head(bs).count + SumCounts(Tail(bs))

Parsed == ret # None /\ call.fn = "parseLogFile"

Cex_C5_IdsCompareIncreasing ==
    Parsed =>
        \A m, n \in 1..Len(ret.v.entries) :
            m < n => /\ ret.v.entries[m].id # ret.v.entries[n].id
                     /\ StrLess(ret.v.entries[m].id, ret.v.entries[n].id)

\* C5 (amended): within one parseLogFile call the ids are pairwise distinct
\* and the counter each id ends with is one more than that of the entry
\* before it; the id strings themselves need not compare in that order.
Thm_C5_IdsDistinctCounterIncreasing ==
    Parsed =>
        /\ \A m, n \in 1..Len(ret.v.entries) :
              m < n => ret.v.entries[m].id # ret.v.entries[n].id
        /\ \A n \in 2..Len(ret.v.entries) :
              IdSuffix(ret.v.entries[n].id) = IdSuffix(ret.v.entries[n - 1].id) + 1

\* two entries made in the same millisecond, numbered 9 and 10
Wit_C5_NineThenTen ==
    /\ Parsed
    /\ Len(ret.v.entries) = 2
    /\ ret.v.entries[1].id = "log-" \o DateNowText(ClockStart) \o "-9"
    /\ ret.v.entries[2].id = "log-" \o DateNowText(ClockStart) \o "-10"

\* C7: every entry has a non-empty message, and a line of the plain-text
\* tier whose message is empty once timestamp and level marker are removed
\* has the whole line as its message.
Thm_C7_MessageNonEmpty ==
    Parsed =>
        \A n \in 1..Len(ret.v.entries) :
            LET e == ret.v.entries[n]
            IN  /\ e.message # ""
                /\ (TierOf(e.raw) = "plain" /\ PlainCleanup(e.raw) = ""
                    => e.message = e.raw)

\* a line holding only a timestamp and a level tag keeps the whole line
Wit_C7_FallbackToLine ==
    /\ Parsed
    /\ Len(ret.v.entries) = 1
    /\ ret.v.entries[1].raw = "2024-01-01T00:00:01Z [info]"
    /\ ret.v.entries[1].message = "2024-01-01T00:00:01Z [info]"

Resolved(entries) == SelectSeq(entries, LAMBDA e : ~Unresolved(e.raw))

RangeOf(S) == IF S = {} THEN None ELSE [start |-> Min(S), end |-> Max(S)]

\* C9 as stated: an entry whose timestamp could not be resolved is created
\* with a current-time default and is left out of dateRange and of the
\* Timeline buckets.
Cex_C9_DefaultExcluded ==
    Parsed =>
        /\ \A n \in 1..Len(ret.v.entries) :
              Unresolved(ret.v.entries[n].raw) =>
                  ret.v.entries[n].dt = JStr(toISOString(ClockAt(n)))
        /\ ret.v.dateRange = RangeOf(ValidInstants(Resolved(ret.v.entries)))
        /\ SumCounts(buckets(ret.v.entries)) = NumValid(Resolved(ret.v.entries))

\* C9 (amended): an entry whose timestamp could not be resolved is created
\* with a current-time default; the default is a valid instant, so the entry
\* lies within dateRange and adds one to the Timeline buckets.
Thm_C9_DefaultIncluded ==
    Parsed =>
        /\ \A n \in 1..Len(ret.v.entries) :
              Unresolved(ret.v.entries[n].raw) =>
                  /\ ret.v.entries[n].dt = JStr(toISOString(ClockAt(n)))
                  /\ ret.v.dateRange # None
                  /\ ret.v.dateRange.start <= ClockAt(n)
                  /\ ClockAt(n) <= ret.v.dateRange.end
                  /\ SumCounts(buckets(<<ret.v.entries[n]>>)) = 1
        /\ LET resolved == Resolved(ret.v.entries)
           IN  SumCounts(buckets(ret.v.entries))
                 = NumValid(resolved) + Len(ret.v.entries) - Len(resolved)

\* a file of one line without timestamp has a date range and one bucket
Wit_C9_DefaultOnly ==
    /\ Parsed
    /\ call.content = "fatal: no timestamp"
    /\ ret.v.dateRange = [start |-> ClockStart, end |-> ClockStart]
    /\ Len(buckets(ret.v.entries)) = 1

\* C10: dateRange is null exactly when no entry has a dt that is a valid
\* instant; otherwise start is the least and end the greatest valid instant;
\* empty or all-blank content gives no entries, no levels and no range.
Thm_C10_DateRangeMinMax ==
    Parsed =>
        LET V == ValidInstants(ret.v.entries)
        IN  /\ (ret.v.dateRange = None) <=> (V = {})
            /\ (V # {} => /\ ret.v.dateRange.start = Min(V)
                          /\ ret.v.dateRange.end = Max(V)
                          /\ ret.v.dateRange.start <= ret.v.dateRange.end)
            /\ (KeptLines(call.content) = <<>> =>
                    /\ ret.v.entries = <<>>
                    /\ ret.v.levels = <<>>
                    /\ ret.v.dateRange = None)

\* a later line holds the earlier instant: start comes from line 2
Wit_C10_MinAfterMax ==
    /\ Parsed
    /\ Len(ret.v.entries) = 2
    /\ DateOf(ret.v.entries[2].dt).ok
    /\ ret.v.dateRange # None
    /\ ret.v.dateRange.start = DateOf(ret.v.entries[2].dt).t
    /\ ret.v.dateRange.start < ret.v.dateRange.end

---------------------------------------------------------------------------
(* filterLogs applied to entry lists drawn from a pool                     *)

MaxEntries == 3

PoolEntry(level, message, data) ==
    LogEntry("", JStr("2024-01-01T00:00:00Z"), level, message, data, "")

FilterPool ==
    { PoolEntry("warn", "Disk LOW", Undefined),
      PoolEntry("info", "up", JObj(<<[k |-> "user", v |-> JStr("Bob")]>>)),
      PoolEntry("error", "disk", JObj(<<[k |-> "low", v |-> JNum("7")]>>)),
      PoolEntry("info", "", JObj(<<>>)) }

Searches == {"", "low", "DISK", "bob", "\"user\":\"b", "zz"}

LevelLists == {<<>>, <<"warn">>, <<"info", "error">>, <<"fatal">>}

InitFilter ==
    /\ call \in {[fn |-> "filterLogs", entries |-> es, search |-> q,
                   levels |-> ls, once |-> None] :
                    es \in SeqsUpTo(FilterPool, MaxEntries),
                    q \in Searches, ls \in LevelLists}
    /\ ret = None
    /\ idCounter = 0 /\ now = 0 /\ issued = {}
    /\ ViewerInit

FilterLogsCall ==
    /\ call.fn = "filterLogs"
    /\ ret = None
    /\ ret' = Returned(filterLogs(call.entries, call.search, call.levels))
    /\ UNCHANGED <<idCounter, now, issued, viewerVars, call>>

\* filterLogs called again, on the list it returned, with the same search
\* text and level list
FilterLogsAgainCall ==
    /\ call.fn = "filterLogs"
    /\ ret # None
    /\ call.once = None
    /\ call' = [call EXCEPT !.once = ret]
    /\ ret' = Returned(filterLogs(ret.v, call.search, call.levels))
    /\ UNCHANGED <<idCounter, now, issued, viewerVars>>

NextFilter == FilterLogsCall \/ FilterLogsAgainCall

SpecFilter == InitFilter /\ [][NextFilter]_vars

\* the condition of C3 for an entry to survive
Survives(entry, search, levels) ==
    /\ levels = <<>> \/ entry.level \in SeqRange(levels)
    /\ \/ search = ""
       \/ OccursIgnoringCase(entry.message, toLowerCase(search))
       \/ /\ entry.data # Undefined
          /\ OccursIgnoringCase(JSONstringify(entry.data), toLowerCase(search))

\* q is p with some elements left out, order kept
RECURSIVE IsSubsequence(_, _)
IsSubsequence(q, p) ==
    IF q = <<>> THEN TRUE
    ELSE IF p = <<>> THEN FALSE
    ELSE IF Head(q) = Head(p) THEN IsSubsequence(Tail(q), Tail(p))
    ELSE IsSubsequence(q, Tail(p))

\* C3: filterLogs returns the entries, in their original order, for which
\* (levels is empty or holds the entry's level) and (search is empty or
\* occurs, letter case ignored, in the message or in the text encoding of
\* data when data is present); empty search and levels return all entries.
Thm_C3_FilterIsSurvivors ==
    (ret # None /\ call.fn = "filterLogs") =>
        LET keep == {n \in 1..Len(call.entries) :
                        Survives(call.entries[n], call.search, call.levels)}
        IN  /\ Len(ret.v) = Cardinality(keep)
            /\ IsSubsequence(ret.v, call.entries)
            /\ \A n \in 1..Len(ret.v) :
                    Survives(ret.v[n], call.search, call.levels)
            /\ (call.search = "" /\ call.levels = <<>> => ret.v = call.entries)

\* an upper-case search matched one message and one data encoding, and the
\* level list removed an entry in between
Wit_C3_SearchAndLevels ==
    /\ ret # None /\ call.fn = "filterLogs"
    /\ call.search = "DISK"
    /\ call.levels = <<"warn">>
    /\ Len(call.entries) = 3
    /\ Len(ret.v) = 1
    /\ ret.v[1].message = "Disk LOW"

\* C13: filterLogs applied to its own result, with the same search text and
\* level list, returns that result unchanged.
Thm_C13_FilterIdempotent ==
    (ret # None /\ call.fn = "filterLogs" /\ call.once # None) =>
        ret.v = call.once.v

\* the second application, on a result of two entries that the first one
\* had reduced by search and by level
Wit_C13_SecondPassKeepsTwo ==
    /\ ret # None /\ call.fn = "filterLogs" /\ call.once # None
    /\ call.search = "low"
    /\ call.levels = <<"info", "error">>
    /\ Len(call.entries) = 3
    /\ Len(call.once.v) = 2
    /\ Len(ret.v) = 2

---------------------------------------------------------------------------
(* the Timeline bucketizer applied to entry lists drawn from a pool        *)

TimelinePool ==
    { LogEntry("", dt, "info", "m", Undefined, "") :
        dt \in {JStr("2024-01-01T00:00:00Z"), JNum("1704067200000"),
                JStr("2024-01-01T00:00:00.001Z"),
                JStr("2024-01-01T00:00:00.007Z"),
                JStr("2024-01-01T00:00:20Z"), JStr("mainZ")} }
    \cup
    { LogEntry("", dt, "error", "m", Undefined, "") :
        dt \in {JStr("2024-01-01T00:00:00Z"),
                JStr("2024-01-01T00:00:00.007Z"), JStr("mainZ")} }

InitTimeline ==
    /\ call \in {[fn |-> "buckets", entries |-> es] :
                    es \in SeqsUpTo(TimelinePool, MaxEntries)}
    /\ ret = None
    /\ idCounter = 0 /\ now = 0 /\ issued = {}
    /\ ViewerInit

BucketsCall ==
    /\ call.fn = "buckets"
    /\ ret = None
    /\ ret' = Returned(buckets(call.entries))
    /\ UNCHANGED <<idCounter, now, issued, viewerVars, call>>

NextTimeline == BucketsCall

SpecTimeline == InitTimeline /\ [][NextTimeline]_vars

RECURSIVE SumLevel(_, _)
SumLevel(bs, l) ==
    IF bs = <<>> THEN 0 ELSE Head(bs).byLevel[l] + SumLevel(Tail(bs), l)

\* C4: the counts of the buckets add up to the number of entries whose dt is
\* a valid instant, in total and level by level, so that an entry whose dt
\* does not parse is in no bucket.
Thm_C4_CountsSumToValid ==
    (ret # None /\ call.fn = "buckets") =>
        /\ SumCounts(ret.v) = NumValid(call.entries)
        /\ \A l \in Levels :
              SumLevel(ret.v, l)
                = Cardinality({n \in 1..Len(call.entries) :
                                 /\ DateOf(call.entries[n].dt).ok
                                 /\ call.entries[n].level = l})

\* two valid entries fell into one bucket beside an entry with invalid dt
Wit_C4_SharedBucketAndInvalid ==
    /\ ret # None /\ call.fn = "buckets"
    /\ Len(call.entries) = 3
    /\ NumValid(call.entries) = 2
    /\ Len(ret.v) = 1
    /\ ret.v[1].count = 2

TimelineDone == ret # None /\ call.fn = "buckets"

\* the instants of the entries of the call whose dt is valid
CallInstants == ValidInstants(call.entries)

\* numBuckets of the call: clamp(entries.length / 10, 20, 100), in tenths
CallTenths ==
    LET l == Len(call.entries)
    IN  IF l < 200 THEN 200 ELSE IF l > 1000 THEN 1000 ELSE l

\* the positions of the call's entries that have a valid dt
ValidPositions ==
    {k \in 1..Len(call.entries) : DateOf(call.entries[k].dt).ok}

\* the bucket index line 41 assigns to each entry that has a valid dt
IndexTable ==
    LET times == CallInstants
        lo == Min(times)
        hi == Max(times)
        tenths == CallTenths
    IN  [k \in ValidPositions |->
            BucketIndex(DateOf(call.entries[k].dt).t, lo, hi - lo, tenths)]

AssignedIndices == LET idx == IndexTable IN {idx[k] : k \in DOMAIN idx}

\* the n-th smallest element of a set of numbers
NthSmallest(S, n) == CHOOSE x \in S : Cardinality({y \in S : y < x}) = n - 1

\* C12: when all entries have the same valid instant, the bucketizer returns
\* exactly one bucket, which starts at that instant (index 0 of width 1) and
\* whose count is the number of entries.
Thm_C12_ZeroRangeOneBucket ==
    (/\ TimelineDone
     /\ Len(call.entries) > 0
     /\ ValidPositions = 1..Len(call.entries)
     /\ Cardinality(CallInstants) = 1) =>
        /\ Len(ret.v) = 1
        /\ ret.v[1].count = Len(call.entries)
        /\ ret.v[1].timestamp = Min(CallInstants)
        /\ AssignedIndices = {0}

\* three entries of one instant, written as text and as a number
Wit_C12_ThreeAtOneInstant ==
    /\ TimelineDone
    /\ Len(call.entries) = 3
    /\ ValidPositions = 1..3
    /\ Cardinality(CallInstants) = 1
    /\ {call.entries[k].dt.t : k \in 1..3} = {"str", "num"}
    /\ Len(ret.v) = 1 /\ ret.v[1].count = 3

\* C14 as stated: with at least one valid instant, every bucket index lies in
\* 0 .. bucketCount-1, bucketCount = clamp(entries.length / 10, 20, 100), and
\* no more than bucketCount buckets (and no more than 100) are returned.
Cex_C14_IndexBelowBucketCount ==
    (TimelineDone /\ ValidPositions # {}) =>
        /\ \A i \in AssignedIndices : i >= 0 /\ i * 10 < CallTenths
        /\ Len(ret.v) * 10 <= CallTenths
        /\ Len(ret.v) <= 100

\* C15 as stated: every bucket has count >= 1 and a byLevel of the five
\* levels summing to its count; the buckets are in strictly ascending bucket
\* index, which the claim equates with strictly ascending start time, and the
\* first bucket starts at the minimum valid instant.
Cex_C15_StartTimesStrictlyAscending ==
    TimelineDone =>
        /\ \A n \in 1..Len(ret.v) :
              /\ ret.v[n].count >= 1
              /\ DOMAIN ret.v[n].byLevel = Levels
              /\ SumCounts([m \in 1..5 |->
                     [count |-> ret.v[n].byLevel[LevelsSorted[m]]]])
                   = ret.v[n].count
        /\ \A n, m \in 1..Len(ret.v) :
              n < m => ret.v[n].timestamp < ret.v[m].timestamp
        /\ (Len(ret.v) > 0 => ret.v[1].timestamp = Min(CallInstants))

\* C15, amended: every bucket has count >= 1 and a byLevel of the five levels
\* summing to its count; the buckets are in strictly ascending bucket index
\* (bucket n holds the entries of the n-th smallest assigned index), their
\* start times never decrease but two buckets may start at the same
\* millisecond, and the first bucket starts at the minimum valid instant.
Thm_C15_BucketsByAscendingIndex ==
    TimelineDone =>
        LET idx == IndexTable
            indices == {idx[k] : k \in DOMAIN idx}
            nth == [n \in 1..Cardinality(indices) |-> NthSmallest(indices, n)]
        IN  /\ Len(ret.v) = Cardinality(indices)
            /\ \A n \in 1..Len(ret.v) :
                  /\ ret.v[n].count >= 1
                  /\ ret.v[n].count
                       = Cardinality({k \in DOMAIN idx : idx[k] = nth[n]})
                  /\ DOMAIN ret.v[n].byLevel = Levels
                  /\ \A l \in Levels :
                        ret.v[n].byLevel[l]
                          = Cardinality({k \in DOMAIN idx :
                               idx[k] = nth[n] /\ call.entries[k].level = l})
            /\ \A n, m \in 1..Len(ret.v) :
                  n < m => ret.v[n].timestamp <= ret.v[m].timestamp
            /\ (Len(ret.v) > 0 => ret.v[1].timestamp = Min(CallInstants))

\* buckets 0 and 2 of width 0.35 ms both start in the first millisecond
Wit_C15_TwoBucketsOneStart ==
    /\ TimelineDone
    /\ Len(ret.v) = 3
    /\ AssignedIndices = {0, 2, 20}
    /\ ret.v[1].timestamp = ret.v[2].timestamp

---------------------------------------------------------------------------
(* the structured-data parser applied to the encodings of small records    *)

MaxFields == 2

FieldKeys == {"message", "msg", "body", "level", "severity", "dt", "time"}

FieldValues ==
    {JStr(""), JStr("fatal err"), JNum("0"), JNum("7"),
     JObj(<<[k |-> "a", v |-> JNum("1")]>>)}

\* records of at most MaxFields fields with distinct keys, in any key order
Records ==
    {q \in SeqsUpTo([k : FieldKeys, v : FieldValues], MaxFields) :
        \A i, j \in 1..Len(q) : q[i].k = q[j].k => i = j}

InitJson ==
    /\ call \in {[fn |-> "parseJsonLog", line |-> JSONstringify(JObj(q))] :
                    q \in Records}
    /\ ret = None
    /\ idCounter = 0 /\ now = ClockStart /\ issued = {}
    /\ ViewerInit

ParseJsonLogCall ==
    /\ call.fn = "parseJsonLog"
    /\ ret = None
    /\ \E r \in {parseJsonLog(call.line, now, idCounter)} :
           /\ ret' = Returned(IF r.ok THEN r.entry ELSE None)
           /\ idCounter' = r.n
           /\ issued' = IF r.ok THEN issued \cup {r.entry.id} ELSE issued
    /\ UNCHANGED <<now, viewerVars, call>>

NextJson == ParseJsonLogCall

SpecJson == InitJson /\ [][NextJson]_vars

MessageFields == <<"message", "msg", "text", "log", "body">>
LevelFields == <<"level", "severity", "log_level", "loglevel">>
TimestampOrder == <<"dt", "timestamp", "time", "@timestamp", "date", "datetime">>

\* the record of the call, as its fields were drawn
Decoded == JSONparse(call.line).v

\* the value of the first field of the ordered list that record o has and
\* that satisfies Counts, or else the value otherwise
FirstField(o, fields, Counts(_), otherwise) ==
    LET hits == {n \in 1..Len(fields) :
                    HasKey(o, fields[n]) /\ Counts(Get(o, fields[n]))}
    IN  IF hits = {} THEN otherwise ELSE Get(o, fields[Min(hits)])

Present(v) == TRUE

\* a value as message text: text as it is, anything else text-encoded
AsText(v) == IF v.t = "str" THEN v.x ELSE JSONstringify(v)

JsonParsed == ret # None /\ call.fn = "parseJsonLog" /\ ret.v # None

\* C11 as stated: message, level and timestamp of a decoded structured-data
\* line come from the first field of their ordered list that is present in
\* the record, and from the fallback (the re-encoded record, info, the
\* current time) only when none of the fields is present.
Cex_C11_FirstPresentField ==
    JsonParsed =>
        /\ ret.v.message
             = AsText(FirstField(Decoded, MessageFields, Present,
                                 JStr(JSONstringify(Decoded))))
        /\ ret.v.level
             = detectLogLevel(ToStringJS(FirstField(Decoded, LevelFields,
                                                    Present, JStr("info"))).s)
        /\ ret.v.dt = FirstField(Decoded, TimestampOrder, Present,
                                 JStr(toISOString(now)))

\* C11, amended: message, level and timestamp of a decoded structured-data
\* line come from the first field of their ordered list whose value is truthy
\* (not "", 0, false or null), the message text-encoded when it is not text;
\* the fallback (the re-encoded record, info, the current time) is used when
\* no field of the list has a truthy value, also when some are present.
Thm_C11_FirstTruthyField ==
    JsonParsed =>
        /\ ret.v.message
             = AsText(FirstField(Decoded, MessageFields, Truthy,
                                 JStr(JSONstringify(Decoded))))
        /\ ret.v.level
             = detectLogLevel(ToStringJS(FirstField(Decoded, LevelFields,
                                                    Truthy, JStr("info"))).s)
        /\ ret.v.dt = FirstField(Decoded, TimestampOrder, Truthy,
                                 JStr(toISOString(now)))
        /\ ret.v.data = Decoded

\* an empty message field was passed over for a later field of the list
Wit_C11_EmptyMessageSkipped ==
    /\ JsonParsed
    /\ call.line = "{\"message\":\"\",\"body\":7}"
    /\ ret.v.message = "7"

---------------------------------------------------------------------------
(* LogViewer: src/unnamed/part_000, with FileUpload and LogTable           *)
(* The clock stands still during the session, so that ids issued by        *)
(* different loads differ in their counter only.                           *)

MaxPending == 2
MaxCounter == 5

Files ==
    { "  \t\n",
      "fatal: no timestamp",
      "{oops\n[main] [warn] {\"msg\":\"hi\"}" }

Queries == {"", "HI"}
ToggleLevels == {"warn", "fatal"}

Init ==
    /\ idCounter = 0
    /\ now = ClockStart
    /\ issued = {}
    /\ ViewerInit
    /\ call = None
    /\ ret = None

\* the filteredEntries memo
filteredEntries ==
    IF parsedLog = None THEN <<>>
    ELSE filterLogs(parsedLog.entries, searchQuery, selectedLevels)

hasFilters == Len(selectedLevels) > 0 \/ Len(searchQuery) > 0

Remove(seq, i) == SubSeq(seq, 1, i - 1) \o SubSeq(seq, i + 1, Len(seq))

\* FileUpload.handleFile: a FileReader starts reading the picked file
handleFile(content) ==
    /\ Len(readers) < MaxPending
    /\ readers' = Append(readers, content)
    /\ lastPicked' = [content |-> content, pending |-> Len(readers)]
    /\ UNCHANGED <<idCounter, now, issued, parsedLog, selectedEntry,
                   searchQuery, selectedLevels, lastLoad, call, ret>>

\* handleFileLoad without setSearchQuery('')
handleFileLoad_KeepSearch(i) ==
    /\ i \in 1..Len(readers)
    /\ idCounter + Len(Lines(readers[i])) <= MaxCounter
    /\ \E parsed \in {parseLogFile(readers[i], now, idCounter,
                                    [n \in 1..Len(Lines(readers[i])) |-> 0])} :
           /\ parsedLog' = [entries |-> parsed.entries,
                            levels |-> parsed.levels,
                            dateRange |-> parsed.dateRange]
           /\ idCounter' = parsed.idCounter
           /\ now' = parsed.now
           /\ issued' = issued \cup {e.id : e \in SeqRange(parsed.entries)}
    /\ selectedEntry' = None
    /\ searchQuery' = searchQuery
    /\ selectedLevels' = <<>>
    /\ readers' = Remove(readers, i)
    /\ lastLoad' = [edited |-> hasFilters /\ selectedEntry # None]
    /\ UNCHANGED <<lastPicked, call, ret>>

\* handleFileLoad without setSelectedEntry(null)
handleFileLoad_KeepSelection(i) ==
    /\ i \in 1..Len(readers)
    /\ idCounter + Len(Lines(readers[i])) <= MaxCounter
    /\ \E parsed \in {parseLogFile(readers[i], now, idCounter,
                                    [n \in 1..Len(Lines(readers[i])) |-> 0])} :
           /\ parsedLog' = [entries |-> parsed.entries,
                            levels |-> parsed.levels,
                            dateRange |-> parsed.dateRange]
           /\ idCounter' = parsed.idCounter
           /\ now' = parsed.now
           /\ issued' = issued \cup {e.id : e \in SeqRange(parsed.entries)}
    /\ selectedEntry' = selectedEntry
    /\ searchQuery' = ""
    /\ selectedLevels' = <<>>
    /\ readers' = Remove(readers, i)
    /\ lastLoad' = [edited |-> hasFilters /\ selectedEntry # None]
    /\ UNCHANGED <<lastPicked, call, ret>>

\* reader.onload of the i-th pending read: LogViewer.handleFileLoad
handleFileLoad(i) ==
    /\ i \in 1..Len(readers)
    /\ idCounter + Len(Lines(readers[i])) <= MaxCounter
    /\ \E parsed \in {parseLogFile(readers[i], now, idCounter,
                                    [n \in 1..Len(Lines(readers[i])) |-> 0])} :
           /\ parsedLog' = [entries |-> parsed.entries,
                            levels |-> parsed.levels,
                            dateRange |-> parsed.dateRange]
           /\ idCounter' = parsed.idCounter
           /\ now' = parsed.now
           /\ issued' = issued \cup {e.id : e \in SeqRange(parsed.entries)}
    /\ selectedEntry' = None
    /\ searchQuery' = ""
    /\ selectedLevels' = <<>>
    /\ readers' = Remove(readers, i)
    /\ lastLoad' = [edited |-> hasFilters /\ selectedEntry # None]
    /\ UNCHANGED <<lastPicked, call, ret>>

\* the search input's onChange, and the x of the search tag
setSearchQuery(q) ==
    /\ q # searchQuery
    /\ searchQuery' = q
    /\ UNCHANGED <<idCounter, now, issued, parsedLog, selectedEntry,
                   selectedLevels, readers, lastPicked, lastLoad, call, ret>>

handleLevelToggle(level) ==
    /\ selectedLevels' =
          IF level \in SeqRange(selectedLevels)
          THEN SelectSeq(selectedLevels, LAMBDA l : l # level)
          ELSE Append(selectedLevels, level)
    /\ UNCHANGED <<idCounter, now, issued, parsedLog, selectedEntry,
                   searchQuery, readers, lastPicked, lastLoad, call, ret>>

\* the Clear all button, shown while a filter is set
clearFilters ==
    /\ hasFilters
    /\ selectedLevels' = <<>>
    /\ searchQuery' = ""
    /\ UNCHANGED <<idCounter, now, issued, parsedLog, selectedEntry,
                   readers, lastPicked, lastLoad, call, ret>>

\* a click on row n of LogTable: onSelect(entry)
selectRow(n) ==
    /\ parsedLog # None
    /\ n \in 1..Len(filteredEntries)
    /\ selectedEntry' = filteredEntries[n]
    /\ UNCHANGED <<idCounter, now, issued, parsedLog, searchQuery,
                   selectedLevels, readers, lastPicked, lastLoad, call, ret>>

\* the backdrop click and LogDetail's onClose
closeDetail ==
    /\ selectedEntry # None
    /\ selectedEntry' = None
    /\ UNCHANGED <<idCounter, now, issued, parsedLog, searchQuery,
                   selectedLevels, readers, lastPicked, lastLoad, call, ret>>

Next ==
    \/ \E content \in Files : handleFile(content)
    \/ \E i \in 1..MaxPending : handleFileLoad(i)
    \/ \E q \in Queries : setSearchQuery(q)
    \/ \E level \in ToggleLevels : handleLevelToggle(level)
    \/ clearFilters
    \/ \E n \in 1..MaxCounter : selectRow(n)
    \/ closeDetail

Spec == Init /\ [][Next]_vars

LoadedEntries == IF parsedLog = None THEN <<>> ELSE parsedLog.entries

\* C6: over any sequence of loads the id counter never goes down; a load
\* advances it by the number of entries it creates, whose ids end with the
\* counter values it passes through and have never been issued before, so
\* that a failed structured or bracketed attempt takes no id; nothing else
\* moves the counter.
Thm_C6_IdsNeverReissued ==
    [][ /\ idCounter' >= idCounter
        /\ issued \subseteq issued'
        /\ Cardinality(issued') = idCounter'
        /\ (issued' # issued =>
              /\ idCounter' = idCounter + Len(parsedLog'.entries)
              /\ \A n \in 1..Len(parsedLog'.entries) :
                    /\ parsedLog'.entries[n].id \notin issued
                    /\ IdSuffix(parsedLog'.entries[n].id) = idCounter + n - 1)
        /\ (issued' = issued => idCounter' = idCounter)
      ]_vars

\* a second load has run, of a file whose first line fails to decode
Wit_C6_SecondLoadAfterFailedDecode ==
    /\ idCounter = 3
    /\ Len(LoadedEntries) = 2
    /\ LoadedEntries[1].raw = "{oops"
    /\ LoadedEntries[1].id = "log-" \o DateNowText(ClockStart) \o "-1"

\* the lines the loaded log was parsed from
LoadedRaw == [n \in 1..Len(LoadedEntries) |-> LoadedEntries[n].raw]

\* a step in which a pending read completes
LoadStep == Len(readers') < Len(readers)

\* C16: every completed file load replaces the parsed log by the parse of
\* the file that was read and resets the search query, the selected levels
\* and the selected entry, so that right after a load the displayed entries
\* are all the entries of the new file.
Thm_C16_LoadResetsView ==
    [][ LoadStep =>
          /\ \E i \in 1..Len(readers) :
                /\ readers' = Remove(readers, i)
                /\ LoadedRaw' = Lines(readers[i])
          /\ searchQuery' = ""
          /\ selectedLevels' = <<>>
          /\ selectedEntry' = None
          /\ filteredEntries' = parsedLog'.entries
      ]_vars

\* a load has just replaced a log that was filtered and had a row selected
Wit_C16_LoadOverFilteredView ==
    /\ lastLoad # None
    /\ lastLoad.edited
    /\ Len(LoadedEntries) = 2
    /\ filteredEntries = LoadedEntries
    /\ ~hasFilters
    /\ selectedEntry = None

\* C17: when two files are picked in succession and both reads are pending
\* together, then whichever read completes first, the log displayed once
\* both have completed is the parse of the file picked last.
Cex_C17_LastPickedIsDisplayed ==
    (/\ readers = <<>>
     /\ lastPicked # None
     /\ lastPicked.pending = 1)
    => LoadedRaw = Lines(lastPicked.content)

\* C18: a selected entry is an entry of the loaded log and one of the
\* displayed filtered entries.
Cex_C18_SelectedIsDisplayed ==
    selectedEntry # None =>
        /\ selectedEntry \in SeqRange(LoadedEntries)
        /\ selectedEntry \in SeqRange(filteredEntries)

\* C18, amended: a selected entry is an entry of the loaded log.  It was a
\* displayed entry at the step that selected it, and a later search edit
\* or level toggle can remove it from the displayed entries without
\* clearing the selection.
Thm_C18_SelectedIsLoaded ==
    /\ [](selectedEntry # None => selectedEntry \in SeqRange(LoadedEntries))
    /\ [][ (selectedEntry' # selectedEntry /\ selectedEntry' # None) =>
              (selectedEntry' \in SeqRange(filteredEntries)
                 /\ UNCHANGED <<parsedLog, searchQuery, selectedLevels>>)
         ]_vars

\* the selected entry of the second load is hidden by the search text
Wit_C18_SelectedFilteredOut ==
    /\ selectedEntry # None
    /\ selectedEntry.raw = "{oops"
    /\ IdSuffix(selectedEntry.id) = 3
    /\ selectedEntry \in SeqRange(LoadedEntries)
    /\ searchQuery = "HI"
    /\ selectedEntry \notin SeqRange(filteredEntries)

====
